---- MODULE Spec2Model ----
(***************************************************************************)
(* Model of libipc_ctypes.IPCChannel: the channel handle lifecycle, the    *)
(* message transfer operations and the receive-buffer ownership, over a    *)
(* transport (libipc.dll) whose results are nondeterministic.              *)
(***************************************************************************)
EXTENDS Integers, Sequences, FiniteSets, TLC

\* ---------------------------------------------------------------- constants
\* IPCStatus
SUCCESS == 0
ERROR_INVALID_ARGUMENT == -1
ERROR_CONNECTION_FAILED == -2
ERROR_SEND_FAILED == -3
ERROR_RECEIVE_FAILED == -4
ERROR_TIMEOUT == -5
ERROR_MEMORY == -6

\* ConnMode
SENDER == 1
RECEIVER == 2

\* ChannelType
ROUTE == 0
CHANNEL == 1

\* Python's None for the handle (a null c_void_p result is None, hence falsy)
NULL == 0
\* the handle the transport hands out on a successful create
H1 == 1

\* ---------------------------------------------------------------- bounds
\* at most this many transport calls are recorded in one behaviour
MaxCalls == 4
\* at most this many close() / __exit__() / __del__() invocations
MaxCloses == 2

\* status codes the transport returns: success, timeout, and another error
Statuses == {SUCCESS, ERROR_TIMEOUT, ERROR_CONNECTION_FAILED}
\* results of ipc_channel_wait_for_recv (1 reached, 0 not reached, other)
WaitResults == {1, 0, -1}
\* results of ipc_channel_recv_count
RecvCounts == {2}
\* message payloads
Payloads == {<<>>, <<104, 105>>}
\* what the caller passes as data: bytes, a bytearray, or something else (a str)
Datas ==
    { [kind |-> "bytes", data |-> <<>>],
      [kind |-> "bytes", data |-> <<104, 105>>],
      [kind |-> "bytearray", data |-> <<104, 105>>],
      [kind |-> "str", data |-> <<104, 105>>] }
\* the count argument of wait_for_receivers
Counts == {1}
Names == {"T"}
ChannelTypes == {CHANNEL}
Modes == {SENDER, RECEIVER}
\* the optional mode argument of connect(); NoMode is Python's None
NoMode == 0

VARIABLES
    phase,          \* "uninit" | "ok" (constructed) | "failed" (__init__ raised) | "dead" (finalized)
    name,           \* self.name
    channel_type,   \* self.channel_type
    mode,           \* self.mode
    handle,         \* self._handle
    connected,      \* self._connected
    log,            \* the transport calls made so far, in order: function, handle, success
    result,         \* the last operation: the fields it found, its transport calls, how it ended
    closeCalls,     \* number of close()/__exit__()/__del__() invocations so far
    rt,             \* round trip: the peer channel object and the messages in the transport
    helper,         \* a running send_message / receive_message: its arguments and position
    tpc             \* threads running close() concurrently: each one's position

vars == <<phase, name, channel_type, mode, handle, connected, log, result, closeCalls,
          rt, helper, tpc>>

\* the value of rt, helper and tpc when nothing of the kind is going on
Idle == "idle"

\* ---------------------------------------------------------------- helpers
\* one call of a function of _lib
Call(fn, h, arg, data, res) ==
    [fn |-> fn, h |-> h, arg |-> arg, data |-> data, res |-> res]

\* the functions of _lib that return an IPCStatus
StatusFns ==
    {"ipc_channel_connect", "ipc_channel_disconnect", "ipc_channel_send",
     "ipc_channel_try_send", "ipc_channel_recv", "ipc_channel_try_recv"}

\* what the log keeps of a call: the function, the handle passed, and whether
\* the call succeeded (a status of SUCCESS, a non-null handle from create)
Brief(c) ==
    [fn |-> c.fn, h |-> c.h,
     ok |-> IF c.fn \in StatusFns THEN c.res = SUCCESS
            ELSE IF c.fn = "ipc_channel_create" THEN c.res # NULL
            ELSE TRUE]

\* how an operation ends
Returns(kind, val, data) ==
    [kind |-> kind, code |-> val, msg |-> "", data |-> data]
ReturnsNone == Returns("None", 0, <<>>)
ReturnsBool(b) == Returns("bool", IF b THEN 1 ELSE 0, <<>>)
ReturnsInt(n) == Returns("int", n, <<>>)
ReturnsBytes(d) == Returns("bytes", 0, d)

\* raise IPCError(status_code, message)
IPCError(status_code, message) ==
    [kind |-> "IPCError", code |-> status_code, msg |-> message, data |-> <<>>]
\* raise TypeError("Data must be bytes or bytearray")
TypeError ==
    [kind |-> "TypeError", code |-> 0, msg |-> "Data must be bytes or bytearray", data |-> <<>>]
\* ctypes.string_at failing (for instance MemoryError on the allocation of the copy)
CopyError ==
    [kind |-> "MemoryError", code |-> 0, msg |-> "", data |-> <<>>]

\* the effect of a method: the fields it leaves, the transport calls it made,
\* and how it ended
Effect(h, c, calls, out) ==
    [handle |-> h, connected |-> c, calls |-> calls, out |-> out]

\* string_at without its size argument: the bytes up to the first NUL
string_at_cstr(data, size) ==
    LET nuls == {i \in 1..Len(data) : data[i] = 0}
    IN  IF nuls = {} THEN data
        ELSE SubSeq(data, 1, (CHOOSE i \in nuls : \A j \in nuls : i <= j) - 1)

\* ctypes.string_at(buffer.data, buffer.size): the first size bytes at data
string_at(data, size) ==
    SubSeq(data, 1, size)

\* _get_buffer_pointer(data): the memory the returned pointer refers to.
\* c_char_p(data) points at the bytes object's buffer, which carries a
\* trailing NUL; from_buffer points at the bytearray's own storage.
_get_buffer_pointer(kind, data) ==
    IF kind = "bytes" THEN data \o <<0>> ELSE data

\* what the transport reads through (pointer, length)
ReadMem(ptr, len) ==
    SubSeq(ptr, 1, len)

ChannelClosed == IPCError(ERROR_INVALID_ARGUMENT, "Channel is closed")
NotConnected == IPCError(ERROR_CONNECTION_FAILED, "Channel not connected")

\* ---------------------------------------------------------------- methods
\* Each method reads the fields of self and yields its Effect; the transport's
\* answers are parameters.

\* __init__ that starts the channel as not connected
__init__disconnected(ct, nm, md, h) ==
    LET c == Call("ipc_channel_create", NULL, md, <<>>, h)
    IN  IF h = NULL
        THEN Effect(NULL, FALSE, <<c>>,
                    IPCError(ERROR_CONNECTION_FAILED, "Failed to create channel"))
        ELSE Effect(h, FALSE, <<c>>, ReturnsNone)

\* IPCChannel.__init__: h is what ipc_channel_create returns
__init__(ct, nm, md, h) ==
    LET c == Call("ipc_channel_create", NULL, md, <<>>, h)
    IN  IF h = NULL
        THEN Effect(NULL, TRUE, <<c>>,
                    IPCError(ERROR_CONNECTION_FAILED, "Failed to create channel"))
        ELSE Effect(h, TRUE, <<c>>, ReturnsNone)

\* connect without its closed-channel check
connect_unchecked(m, r) ==
    IF connected THEN Effect(handle, connected, <<>>, ReturnsNone)
    ELSE LET connect_mode == IF m # NoMode THEN m ELSE mode
             c == Call("ipc_channel_connect", handle, connect_mode, <<>>, r)
         IN  IF r # SUCCESS
             THEN Effect(handle, connected, <<c>>, IPCError(r, "Failed to connect to channel"))
             ELSE Effect(handle, TRUE, <<c>>, ReturnsNone)

\* connect that always uses the construction-time mode
connect_ignores_mode(m, r) ==
    IF handle = NULL THEN Effect(handle, connected, <<>>, ChannelClosed)
    ELSE IF connected THEN Effect(handle, connected, <<>>, ReturnsNone)
    ELSE LET c == Call("ipc_channel_connect", handle, mode, <<>>, r)
         IN  IF r # SUCCESS
             THEN Effect(handle, connected, <<c>>, IPCError(r, "Failed to connect to channel"))
             ELSE Effect(handle, TRUE, <<c>>, ReturnsNone)

\* connect that creates a new handle for a closed channel
connect_reopens(m, r) ==
    IF handle = NULL
    THEN Effect(H1, TRUE, <<Call("ipc_channel_create", NULL, mode, <<>>, H1)>>, ReturnsNone)
    ELSE IF connected THEN Effect(handle, connected, <<>>, ReturnsNone)
    ELSE LET connect_mode == IF m # NoMode THEN m ELSE mode
             c == Call("ipc_channel_connect", handle, connect_mode, <<>>, r)
         IN  IF r # SUCCESS
             THEN Effect(handle, connected, <<c>>, IPCError(r, "Failed to connect to channel"))
             ELSE Effect(handle, TRUE, <<c>>, ReturnsNone)

\* connect that marks the channel connected before it looks at the status
connect_latches(m, r) ==
    IF handle = NULL THEN Effect(handle, connected, <<>>, ChannelClosed)
    ELSE IF connected THEN Effect(handle, connected, <<>>, ReturnsNone)
    ELSE LET connect_mode == IF m # NoMode THEN m ELSE mode
             c == Call("ipc_channel_connect", handle, connect_mode, <<>>, r)
         IN  IF r # SUCCESS
             THEN Effect(handle, TRUE, <<c>>, IPCError(r, "Failed to connect to channel"))
             ELSE Effect(handle, TRUE, <<c>>, ReturnsNone)

\* IPCChannel.connect: m is the mode argument, r the transport's status
connect(m, r) ==
    IF handle = NULL THEN Effect(handle, connected, <<>>, ChannelClosed)
    ELSE IF connected THEN Effect(handle, connected, <<>>, ReturnsNone)
    ELSE LET connect_mode == IF m # NoMode THEN m ELSE mode
             c == Call("ipc_channel_connect", handle, connect_mode, <<>>, r)
         IN  IF r # SUCCESS
             THEN Effect(handle, connected, <<c>>, IPCError(r, "Failed to connect to channel"))
             ELSE Effect(handle, TRUE, <<c>>, ReturnsNone)

\* disconnect that marks the channel disconnected before it reports a failure
disconnect_flips_first(r) ==
    IF handle = NULL \/ ~connected THEN Effect(handle, connected, <<>>, ReturnsNone)
    ELSE LET c == Call("ipc_channel_disconnect", handle, 0, <<>>, r)
         IN  IF r # SUCCESS
             THEN Effect(handle, FALSE, <<c>>,
                         IPCError(r, "Failed to disconnect from channel"))
             ELSE Effect(handle, FALSE, <<c>>, ReturnsNone)

\* IPCChannel.disconnect: r is the transport's status
disconnect(r) ==
    IF handle = NULL \/ ~connected THEN Effect(handle, connected, <<>>, ReturnsNone)
    ELSE LET c == Call("ipc_channel_disconnect", handle, 0, <<>>, r)
         IN  IF r # SUCCESS
             THEN Effect(handle, connected, <<c>>,
                         IPCError(r, "Failed to disconnect from channel"))
             ELSE Effect(handle, FALSE, <<c>>, ReturnsNone)

\* send that treats a timeout as a soft result
send_soft_timeout(kind, data, r) ==
    IF handle = NULL THEN Effect(handle, connected, <<>>, ChannelClosed)
    ELSE IF ~connected THEN Effect(handle, connected, <<>>, NotConnected)
    ELSE IF kind \notin {"bytes", "bytearray"}
         THEN Effect(handle, connected, <<>>, TypeError)
    ELSE LET c == Call("ipc_channel_send", handle, Len(data),
                       ReadMem(_get_buffer_pointer(kind, data), Len(data)), r)
         IN  IF r \notin {SUCCESS, ERROR_TIMEOUT}
             THEN Effect(handle, connected, <<c>>, IPCError(r, "Failed to send data"))
             ELSE Effect(handle, connected, <<c>>, ReturnsNone)

\* send that marks the channel disconnected when the transport fails
send_disconnects_on_error(kind, data, r) ==
    IF handle = NULL THEN Effect(handle, connected, <<>>, ChannelClosed)
    ELSE IF ~connected THEN Effect(handle, connected, <<>>, NotConnected)
    ELSE IF kind \notin {"bytes", "bytearray"}
         THEN Effect(handle, connected, <<>>, TypeError)
    ELSE LET c == Call("ipc_channel_send", handle, Len(data),
                       ReadMem(_get_buffer_pointer(kind, data), Len(data)), r)
         IN  IF r # SUCCESS
             THEN Effect(handle, FALSE, <<c>>, IPCError(r, "Failed to send data"))
             ELSE Effect(handle, connected, <<c>>, ReturnsNone)

\* IPCChannel.send
send(kind, data, r) ==
    IF handle = NULL THEN Effect(handle, connected, <<>>, ChannelClosed)
    ELSE IF ~connected THEN Effect(handle, connected, <<>>, NotConnected)
    ELSE IF kind \notin {"bytes", "bytearray"}
         THEN Effect(handle, connected, <<>>, TypeError)
    ELSE LET data_ptr == _get_buffer_pointer(kind, data)
             c == Call("ipc_channel_send", handle, Len(data),
                       ReadMem(data_ptr, Len(data)), r)
         IN  IF r # SUCCESS
             THEN Effect(handle, connected, <<c>>, IPCError(r, "Failed to send data"))
             ELSE Effect(handle, connected, <<c>>, ReturnsNone)

\* try_send with the result handling of send: a timeout raises
try_send_hard_timeout(kind, data, r) ==
    IF handle = NULL THEN Effect(handle, connected, <<>>, ChannelClosed)
    ELSE IF ~connected THEN Effect(handle, connected, <<>>, NotConnected)
    ELSE IF kind \notin {"bytes", "bytearray"}
         THEN Effect(handle, connected, <<>>, TypeError)
    ELSE LET c == Call("ipc_channel_try_send", handle, Len(data),
                       ReadMem(_get_buffer_pointer(kind, data), Len(data)), r)
         IN  IF r = SUCCESS THEN Effect(handle, connected, <<c>>, ReturnsBool(TRUE))
             ELSE Effect(handle, connected, <<c>>, IPCError(r, "Failed to send data"))

\* IPCChannel.try_send
try_send(kind, data, r) ==
    IF handle = NULL THEN Effect(handle, connected, <<>>, ChannelClosed)
    ELSE IF ~connected THEN Effect(handle, connected, <<>>, NotConnected)
    ELSE IF kind \notin {"bytes", "bytearray"}
         THEN Effect(handle, connected, <<>>, TypeError)
    ELSE LET data_ptr == _get_buffer_pointer(kind, data)
             c == Call("ipc_channel_try_send", handle, Len(data),
                       ReadMem(data_ptr, Len(data)), r)
         IN  IF r = SUCCESS THEN Effect(handle, connected, <<c>>, ReturnsBool(TRUE))
             ELSE IF r = ERROR_TIMEOUT
                  THEN Effect(handle, connected, <<c>>, ReturnsBool(FALSE))
             ELSE Effect(handle, connected, <<c>>, IPCError(r, "Failed to send data"))

\* copy then free without the finally: a failing copy skips the free
CopyThenFree(c, buf, copyOk) ==
    LET free == Call("ipc_buffer_free", NULL, 0, buf, 0)
    IN  IF copyOk
        THEN Effect(handle, connected, <<c, free>>, ReturnsBytes(string_at(buf, Len(buf))))
        ELSE Effect(handle, connected, <<c>>, CopyError)

\* the try: string_at / finally: ipc_buffer_free block of receive and
\* try_receive, entered after the transport call c filled the buffer with buf;
\* copyOk is whether string_at succeeds
CopyAndFree(c, buf, copyOk) ==
    LET free == Call("ipc_buffer_free", NULL, 0, buf, 0)
    IN  IF copyOk
        THEN Effect(handle, connected, <<c, free>>, ReturnsBytes(string_at(buf, Len(buf))))
        ELSE Effect(handle, connected, <<c, free>>, CopyError)

\* receive with its two precondition checks in the other order
receive_checks_swapped(r, buf, copyOk) ==
    IF ~connected THEN Effect(handle, connected, <<>>, NotConnected)
    ELSE IF handle = NULL THEN Effect(handle, connected, <<>>, ChannelClosed)
    ELSE LET c == Call("ipc_channel_recv", handle, 0,
                       IF r = SUCCESS THEN buf ELSE <<>>, r)
         IN  IF r # SUCCESS
             THEN Effect(handle, connected, <<c>>, IPCError(r, "Failed to receive data"))
             ELSE CopyAndFree(c, buf, copyOk)

\* IPCChannel.receive: on success the transport fills the buffer with buf
receive(r, buf, copyOk) ==
    IF handle = NULL THEN Effect(handle, connected, <<>>, ChannelClosed)
    ELSE IF ~connected THEN Effect(handle, connected, <<>>, NotConnected)
    ELSE LET c == Call("ipc_channel_recv", handle, 0,
                       IF r = SUCCESS THEN buf ELSE <<>>, r)
         IN  IF r # SUCCESS
             THEN Effect(handle, connected, <<c>>, IPCError(r, "Failed to receive data"))
             ELSE CopyAndFree(c, buf, copyOk)

\* try_receive with the result handling of receive: a timeout raises
try_receive_hard_timeout(r, buf, copyOk) ==
    IF handle = NULL THEN Effect(handle, connected, <<>>, ChannelClosed)
    ELSE IF ~connected THEN Effect(handle, connected, <<>>, NotConnected)
    ELSE LET c == Call("ipc_channel_try_recv", handle, 0,
                       IF r = SUCCESS THEN buf ELSE <<>>, r)
         IN  IF r = SUCCESS THEN CopyAndFree(c, buf, copyOk)
             ELSE Effect(handle, connected, <<c>>, IPCError(r, "Failed to receive data"))

\* IPCChannel.try_receive
try_receive(r, buf, copyOk) ==
    IF handle = NULL THEN Effect(handle, connected, <<>>, ChannelClosed)
    ELSE IF ~connected THEN Effect(handle, connected, <<>>, NotConnected)
    ELSE LET c == Call("ipc_channel_try_recv", handle, 0,
                       IF r = SUCCESS THEN buf ELSE <<>>, r)
         IN  IF r = SUCCESS THEN CopyAndFree(c, buf, copyOk)
             ELSE IF r = ERROR_TIMEOUT
                  THEN Effect(handle, connected, <<c>>, ReturnsNone)
             ELSE Effect(handle, connected, <<c>>, IPCError(r, "Failed to receive data"))

\* IPCChannel.get_receiver_count: n is what the transport reports
get_receiver_count(n) ==
    IF handle = NULL THEN Effect(handle, connected, <<>>, ReturnsInt(-1))
    ELSE Effect(handle, connected,
                <<Call("ipc_channel_recv_count", handle, 0, <<>>, n)>>, ReturnsInt(n))

\* wait_for_receivers with the preconditions of send
wait_for_receivers_needs_connection(count, w) ==
    IF handle = NULL THEN Effect(handle, connected, <<>>, ChannelClosed)
    ELSE IF ~connected THEN Effect(handle, connected, <<>>, NotConnected)
    ELSE LET c == Call("ipc_channel_wait_for_recv", handle, count, <<>>, w)
         IN  IF w = 1 THEN Effect(handle, connected, <<c>>, ReturnsBool(TRUE))
             ELSE IF w = 0 THEN Effect(handle, connected, <<c>>, ReturnsBool(FALSE))
             ELSE Effect(handle, connected, <<c>>,
                         IPCError(ERROR_CONNECTION_FAILED, "Failed to wait for receivers"))

\* IPCChannel.wait_for_receivers: w is the transport's result
wait_for_receivers(count, w) ==
    IF handle = NULL THEN Effect(handle, connected, <<>>, ChannelClosed)
    ELSE LET c == Call("ipc_channel_wait_for_recv", handle, count, <<>>, w)
         IN  IF w = 1 THEN Effect(handle, connected, <<c>>, ReturnsBool(TRUE))
             ELSE IF w = 0 THEN Effect(handle, connected, <<c>>, ReturnsBool(FALSE))
             ELSE Effect(handle, connected, <<c>>,
                         IPCError(ERROR_CONNECTION_FAILED, "Failed to wait for receivers"))

\* close that forgets to clear self._handle
close_keeps_handle(r) ==
    IF handle # NULL
    THEN LET d == IF connected THEN disconnect(r)
                  ELSE Effect(handle, connected, <<>>, ReturnsNone)
         IN  Effect(handle, FALSE,
                    d.calls \o <<Call("ipc_channel_destroy", d.handle, 0, <<>>, 0)>>,
                    ReturnsNone)
    ELSE Effect(handle, connected, <<>>, ReturnsNone)

\* close that destroys the handle before it disconnects
close_destroys_first(r) ==
    IF handle # NULL
    THEN LET d == IF connected THEN disconnect(r)
                  ELSE Effect(handle, connected, <<>>, ReturnsNone)
         IN  Effect(NULL, FALSE,
                    <<Call("ipc_channel_destroy", handle, 0, <<>>, 0)>> \o d.calls,
                    ReturnsNone)
    ELSE Effect(handle, connected, <<>>, ReturnsNone)

\* close without the try/except around disconnect
close_propagates(r) ==
    IF handle # NULL
    THEN LET d == IF connected THEN disconnect(r)
                  ELSE Effect(handle, connected, <<>>, ReturnsNone)
         IN  IF d.out.kind # "None"
             THEN d
             ELSE Effect(NULL, FALSE,
                         d.calls \o <<Call("ipc_channel_destroy", d.handle, 0, <<>>, 0)>>,
                         ReturnsNone)
    ELSE Effect(handle, connected, <<>>, ReturnsNone)

\* close without the test of self._handle
close_unguarded(r) ==
    LET d == IF connected THEN disconnect(r)
             ELSE Effect(handle, connected, <<>>, ReturnsNone)
    IN  Effect(NULL, FALSE,
               d.calls \o <<Call("ipc_channel_destroy", d.handle, 0, <<>>, 0)>>,
               ReturnsNone)

\* IPCChannel.close: r is the status of the disconnect it may attempt
close(r) ==
    IF handle # NULL
    THEN LET d == IF connected THEN disconnect(r)
                  ELSE Effect(handle, connected, <<>>, ReturnsNone)
         IN  IF d.out.kind \notin {"None", "IPCError"}
             THEN d     \* only IPCError is caught
             ELSE Effect(NULL, FALSE,
                         d.calls \o <<Call("ipc_channel_destroy", d.handle, 0, <<>>, 0)>>,
                         ReturnsNone)
    ELSE Effect(handle, connected, <<>>, ReturnsNone)

\* IPCChannel.is_connected
is_connected ==
    connected /\ handle # NULL

\* IPCChannel.is_closed
is_closed ==
    handle = NULL

\* ---------------------------------------------------------------- actions
\* the caller holds a reference to a constructed channel
Callable == phase = "ok"

\* an operation op, called with args, ends with effect e
Update(op, args, e) ==
    /\ handle' = e.handle
    /\ connected' = e.connected
    /\ log' = log \o [i \in 1..Len(e.calls) |-> Brief(e.calls[i])]
    /\ result' = [op |-> op, args |-> args,
                  pre |-> [handle |-> handle, connected |-> connected],
                  calls |-> e.calls, out |-> e.out]

\* the same, on the one channel of Spec, within the bound on recorded calls
ApplyArgs(op, args, e) ==
    /\ Len(log) + Len(e.calls) <= MaxCalls
    /\ Update(op, args, e)
    /\ UNCHANGED <<rt, helper, tpc>>

Apply(op, e) ==
    ApplyArgs(op, <<>>, e)

\* no operation has been called yet
NoResult ==
    [op |-> "none", args |-> <<>>, pre |-> [handle |-> NULL, connected |-> FALSE],
     calls |-> <<>>, out |-> ReturnsNone]

Init ==
    /\ phase = "uninit"
    /\ name = ""
    /\ channel_type = CHANNEL
    /\ mode = NoMode
    /\ handle = NULL
    /\ connected = FALSE
    /\ log = <<>>
    /\ result = NoResult
    /\ closeCalls = 0
    /\ rt = Idle
    /\ helper = Idle
    /\ tpc = Idle

Construct ==
    /\ phase = "uninit"
    /\ \E ct \in ChannelTypes, nm \in Names, md \in Modes, h \in {NULL, H1} :
          /\ name' = nm
          /\ channel_type' = ct
          /\ mode' = md
          /\ Apply("__init__", __init__(ct, nm, md, h))
          /\ phase' = IF h = NULL THEN "failed" ELSE "ok"
    /\ UNCHANGED closeCalls

Connect ==
    /\ Callable
    /\ \E m \in Modes \cup {NoMode}, r \in Statuses :
          ApplyArgs("connect", <<m>>, connect(m, r))
    /\ UNCHANGED <<phase, name, channel_type, mode, closeCalls>>

Disconnect ==
    /\ Callable
    /\ \E r \in Statuses : Apply("disconnect", disconnect(r))
    /\ UNCHANGED <<phase, name, channel_type, mode, closeCalls>>

Send ==
    /\ Callable
    /\ \E d \in Datas, r \in Statuses : Apply("send", send(d.kind, d.data, r))
    /\ UNCHANGED <<phase, name, channel_type, mode, closeCalls>>

TrySend ==
    /\ Callable
    /\ \E d \in Datas, r \in Statuses :
          Apply("try_send", try_send(d.kind, d.data, r))
    /\ UNCHANGED <<phase, name, channel_type, mode, closeCalls>>

Receive ==
    /\ Callable
    /\ \E r \in Statuses, buf \in Payloads, copyOk \in BOOLEAN :
          Apply("receive", receive(r, buf, copyOk))
    /\ UNCHANGED <<phase, name, channel_type, mode, closeCalls>>

TryReceive ==
    /\ Callable
    /\ \E r \in Statuses, buf \in Payloads, copyOk \in BOOLEAN :
          Apply("try_receive", try_receive(r, buf, copyOk))
    /\ UNCHANGED <<phase, name, channel_type, mode, closeCalls>>

GetReceiverCount ==
    /\ Callable
    /\ \E n \in RecvCounts : Apply("get_receiver_count", get_receiver_count(n))
    /\ UNCHANGED <<phase, name, channel_type, mode, closeCalls>>

WaitForReceivers ==
    /\ Callable
    /\ \E count \in Counts, w \in WaitResults :
          Apply("wait_for_receivers", wait_for_receivers(count, w))
    /\ UNCHANGED <<phase, name, channel_type, mode, closeCalls>>

\* an explicit close()
Close ==
    /\ Callable
    /\ closeCalls < MaxCloses
    /\ \E r \in Statuses : Apply("close", close(r))
    /\ closeCalls' = closeCalls + 1
    /\ UNCHANGED <<phase, name, channel_type, mode>>

\* __exit__: leaving a with block closes the channel; the object stays referenced
Exit ==
    /\ Callable
    /\ closeCalls < MaxCloses
    /\ \E r \in Statuses : Apply("__exit__", close(r))
    /\ closeCalls' = closeCalls + 1
    /\ UNCHANGED <<phase, name, channel_type, mode>>

\* __del__: the finalizer closes the channel, also the object whose __init__
\* raised; nothing can be called on the object afterwards
Del ==
    /\ phase \in {"ok", "failed"}
    /\ closeCalls < MaxCloses
    /\ \E r \in Statuses : Apply("__del__", close(r))
    /\ closeCalls' = closeCalls + 1
    /\ phase' = "dead"
    /\ UNCHANGED <<name, channel_type, mode>>

Next ==
    \/ Construct
    \/ Connect
    \/ Disconnect
    \/ Send
    \/ TrySend
    \/ Receive
    \/ TryReceive
    \/ GetReceiverCount
    \/ WaitForReceivers
    \/ Close
    \/ Exit
    \/ Del

Spec == Init /\ [][Next]_vars

\* ------------------------------------------- send_message / receive_message
\* the data a caller passes to send_message (data: bytes)
HelperDatas == {d \in Datas : d.kind \in {"bytes", "bytearray"}}

\* the channel_type argument of the helpers
HelperChannelTypes == {ROUTE, CHANNEL}

\* a call of send_message(channel_name, data) or receive_message(channel_name),
\* about to enter its with statement; body is how the with body ended, out how
\* the helper ended
HelperCalls ==
    { [fn |-> "send_message", data |-> d, pc |-> "with", body |-> ReturnsNone,
       out |-> ReturnsNone] : d \in HelperDatas }
    \cup { [fn |-> "receive_message", data |-> [kind |-> "bytes", data |-> <<>>],
            pc |-> "with", body |-> ReturnsNone, out |-> ReturnsNone] }

InitHelper ==
    /\ phase = "uninit"
    /\ name = ""
    /\ channel_type = CHANNEL
    /\ mode = NoMode
    /\ handle = NULL
    /\ connected = FALSE
    /\ log = <<>>
    /\ result = NoResult
    /\ closeCalls = 0
    /\ rt = Idle
    /\ tpc = Idle
    /\ helper \in HelperCalls

\* with IPCChannel(channel_type, channel_name, ConnMode.SENDER / RECEIVER) as
\* channel: an exception of the constructor leaves the helper at once
HWith ==
    /\ helper.pc = "with"
    /\ \E ct \in HelperChannelTypes, nm \in Names, h \in {NULL, H1} :
          LET md == IF helper.fn = "send_message" THEN SENDER ELSE RECEIVER
              e == __init__(ct, nm, md, h)
          IN  /\ name' = nm
              /\ channel_type' = ct
              /\ mode' = md
              /\ Update("__init__", <<>>, e)
              /\ phase' = IF e.handle = NULL THEN "failed" ELSE "ok"
              /\ helper' = IF e.out.kind = "None"
                           THEN [helper EXCEPT !.pc = "connect"]
                           ELSE [helper EXCEPT !.pc = "done", !.out = e.out]
    /\ UNCHANGED <<closeCalls, rt, tpc>>

\* channel.connect(): an exception skips the rest of the with body
HConnect ==
    /\ helper.pc = "connect"
    /\ \E r \in Statuses :
          LET e == connect(NoMode, r)
          IN  /\ Update("connect", <<NoMode>>, e)
              /\ helper' = IF e.out.kind = "None"
                           THEN [helper EXCEPT !.pc = "transfer"]
                           ELSE [helper EXCEPT !.pc = "exit", !.body = e.out]
    /\ UNCHANGED <<phase, name, channel_type, mode, closeCalls, rt, tpc>>

\* channel.send(data) / return channel.receive(timeout_ms)
HTransfer ==
    /\ helper.pc = "transfer"
    /\ \/ /\ helper.fn = "send_message"
          /\ \E r \in Statuses :
                LET e == send(helper.data.kind, helper.data.data, r)
                IN  /\ Update("send", <<>>, e)
                    /\ helper' = [helper EXCEPT !.pc = "exit", !.body = e.out]
       \/ /\ helper.fn = "receive_message"
          /\ \E r \in Statuses, buf \in Payloads, copyOk \in BOOLEAN :
                LET e == receive(r, buf, copyOk)
                IN  /\ Update("receive", <<>>, e)
                    /\ helper' = [helper EXCEPT !.pc = "exit", !.body = e.out]
    /\ UNCHANGED <<phase, name, channel_type, mode, closeCalls, rt, tpc>>

\* leaving the with block: __exit__ closes the channel and returns None, so
\* the result or the exception of the body becomes that of the helper
HExit ==
    /\ helper.pc = "exit"
    /\ \E r \in Statuses :
          LET e == close(r)
          IN  /\ Update("__exit__", <<>>, e)
              /\ helper' = [helper EXCEPT !.pc = "done",
                                          !.out = IF e.out.kind = "None"
                                                  THEN helper.body ELSE e.out]
    /\ closeCalls' = closeCalls + 1
    /\ UNCHANGED <<phase, name, channel_type, mode, rt, tpc>>

\* after the helper has ended, the channel object is finalized
HDel ==
    /\ helper.pc = "done"
    /\ phase \in {"ok", "failed"}
    /\ \E r \in Statuses : Update("__del__", <<>>, close(r))
    /\ closeCalls' = closeCalls + 1
    /\ phase' = "dead"
    /\ UNCHANGED <<name, channel_type, mode, rt, helper, tpc>>

NextHelper ==
    \/ HWith
    \/ HConnect
    \/ HTransfer
    \/ HExit
    \/ HDel

SpecHelper == InitHelper /\ [][NextHelper]_vars

\* ------------------------------------------------------------- round trip
\* A sender and a receiver channel of the same name, used from one thread.
\* The fields handle, connected, ... are those of the object the next call is
\* made on (rt.self); rt.other keeps the fields of the other object. The
\* transport hands each message it accepted to the receiver as it was given.

\* the handle the transport gives to the receiver
H2 == 2
\* longest payload sent
MaxLen == 2
\* at most this many send() calls and this many receive() calls
MaxMsgs == 2
RTBytes == {0, 104}
RTPayloads == UNION {[1..n -> RTBytes] : n \in 0..MaxLen}
RTDatas == {[kind |-> k, data |-> d] : k \in {"bytes", "bytearray"}, d \in RTPayloads}

\* the fields of a channel object
Fields(ph, nm, ct, md, h, c) ==
    [phase |-> ph, name |-> nm, channel_type |-> ct, mode |-> md, handle |-> h,
     connected |-> c]

InitRT ==
    /\ phase = "uninit"
    /\ name = ""
    /\ channel_type = CHANNEL
    /\ mode = NoMode
    /\ handle = NULL
    /\ connected = FALSE
    /\ log = <<>>
    /\ result = NoResult
    /\ closeCalls = 0
    /\ helper = Idle
    /\ tpc = Idle
    /\ rt = [self |-> "sender",
             other |-> Fields("uninit", "", CHANNEL, NoMode, NULL, FALSE),
             wire |-> <<>>, nsent |-> 0, nrecv |-> 0, lastSent |-> <<>>]

\* IPCChannel(ChannelType.CHANNEL, "T", ConnMode.SENDER / RECEIVER)
RTOpen ==
    /\ phase = "uninit"
    /\ \E nm \in Names, h \in {NULL, IF rt.self = "sender" THEN H1 ELSE H2} :
          LET md == IF rt.self = "sender" THEN SENDER ELSE RECEIVER
              e == __init__(CHANNEL, nm, md, h)
          IN  /\ name' = nm
              /\ channel_type' = CHANNEL
              /\ mode' = md
              /\ Update("__init__", <<>>, e)
              /\ phase' = IF e.handle = NULL THEN "failed" ELSE "ok"
    /\ UNCHANGED <<closeCalls, rt, helper, tpc>>

\* the next call is made on the other object
RTSwitch ==
    /\ rt' = [rt EXCEPT !.self = IF rt.self = "sender" THEN "receiver" ELSE "sender",
                        !.other = Fields(phase, name, channel_type, mode, handle,
                                         connected)]
    /\ phase' = rt.other.phase
    /\ name' = rt.other.name
    /\ channel_type' = rt.other.channel_type
    /\ mode' = rt.other.mode
    /\ handle' = rt.other.handle
    /\ connected' = rt.other.connected
    /\ UNCHANGED <<log, result, closeCalls, helper, tpc>>

\* sender.send(data): a message the transport accepted (SUCCESS) is queued as
\* the bytes it read through the pointer
RTSend ==
    /\ rt.self = "sender"
    /\ phase = "ok"
    /\ rt.nsent < MaxMsgs
    /\ \E d \in RTDatas, r \in Statuses :
          LET e == send(d.kind, d.data, r)
              accepted == e.calls # <<>> /\ e.calls[1].res = SUCCESS
          IN  /\ Update("send", <<>>, e)
              /\ rt' = [rt EXCEPT !.nsent = rt.nsent + 1,
                                  !.wire = IF accepted
                                           THEN Append(rt.wire, [sent |-> d.data,
                                                                 bytes |-> e.calls[1].data])
                                           ELSE rt.wire]
    /\ UNCHANGED <<phase, name, channel_type, mode, closeCalls, helper, tpc>>

\* receiver.receive(): the transport fills the buffer with the oldest queued
\* message, or reports a timeout when there is none
RTReceive ==
    /\ rt.self = "receiver"
    /\ phase = "ok"
    /\ rt.nrecv < MaxMsgs
    /\ \/ /\ rt.wire # <<>>
          /\ \E copyOk \in BOOLEAN :
                /\ Update("receive", <<>>, receive(SUCCESS, Head(rt.wire).bytes, copyOk))
                /\ rt' = [rt EXCEPT !.nrecv = rt.nrecv + 1,
                                    !.wire = Tail(rt.wire),
                                    !.lastSent = Head(rt.wire).sent]
       \/ /\ rt.wire = <<>>
          /\ Update("receive", <<>>, receive(ERROR_TIMEOUT, <<>>, TRUE))
          /\ rt' = [rt EXCEPT !.nrecv = rt.nrecv + 1]
    /\ UNCHANGED <<phase, name, channel_type, mode, closeCalls, helper, tpc>>

NextRT ==
    \/ RTOpen
    \/ RTSwitch
    \/ RTSend
    \/ RTReceive

SpecRT == InitRT /\ [][NextRT]_vars

\* ------------------------------------------------------- concurrent close
\* close() called on one channel by two threads. close() takes no lock, so a
\* thread switch can fall between any two of its reads and writes of
\* self._handle and self._connected, and inside a call of _lib (ctypes
\* releases the interpreter lock for the duration of a foreign call).
\* tpc[t] is the line thread t is about to run.

Threads == {"A", "B"}

InitConc ==
    /\ phase = "uninit"
    /\ name = ""
    /\ channel_type = CHANNEL
    /\ mode = NoMode
    /\ handle = NULL
    /\ connected = FALSE
    /\ log = <<>>
    /\ result = NoResult
    /\ closeCalls = 0
    /\ rt = Idle
    /\ helper = Idle
    /\ tpc = [t \in Threads |-> "start"]

NotStarted == \A t \in Threads : tpc[t] = "start"

\* the channel is constructed before it is shared
ConcOpen ==
    /\ phase = "uninit"
    /\ \E ct \in ChannelTypes, nm \in Names, md \in Modes, h \in {NULL, H1} :
          /\ name' = nm
          /\ channel_type' = ct
          /\ mode' = md
          /\ Update("__init__", <<>>, __init__(ct, nm, md, h))
          /\ phase' = IF h = NULL THEN "failed" ELSE "ok"
    /\ UNCHANGED <<closeCalls, rt, helper, tpc>>

\* ... and may have been disconnected by its owner before the threads close it
ConcDisconnect ==
    /\ phase = "ok"
    /\ NotStarted
    /\ result.op = "__init__"
    /\ \E r \in Statuses : Update("disconnect", <<>>, disconnect(r))
    /\ UNCHANGED <<phase, name, channel_type, mode, closeCalls, rt, helper, tpc>>

\* thread t moves to line pc; the attributes and the log are as given
Goto(t, pc, h, c, calls) ==
    /\ tpc' = [tpc EXCEPT ![t] = pc]
    /\ handle' = h
    /\ connected' = c
    /\ log' = log \o [i \in 1..Len(calls) |-> Brief(calls[i])]
    /\ UNCHANGED <<phase, name, channel_type, mode, result, rt, helper>>

\* close(), line 420: if self._handle:
close_if_handle(t) ==
    /\ phase \in {"ok", "failed"}
    /\ tpc[t] = "start"
    /\ closeCalls' = closeCalls + 1
    /\ Goto(t, IF handle # NULL THEN "if_connected" ELSE "done", handle, connected, <<>>)

\* close(), line 421: if self._connected:
close_if_connected(t) ==
    /\ tpc[t] = "if_connected"
    /\ UNCHANGED closeCalls
    /\ Goto(t, IF connected THEN "disconnect" ELSE "destroy", handle, connected, <<>>)

\* disconnect(), line 236: if not self._handle or not self._connected: return
disconnect_if(t) ==
    /\ tpc[t] = "disconnect"
    /\ UNCHANGED closeCalls
    /\ Goto(t, IF handle = NULL \/ ~connected THEN "destroy" ELSE "ipc_channel_disconnect",
            handle, connected, <<>>)

\* disconnect(), lines 239-242: the transport call with the handle read now;
\* a status other than SUCCESS raises, and close() swallows the IPCError
disconnect_call(t) ==
    /\ tpc[t] = "ipc_channel_disconnect"
    /\ UNCHANGED closeCalls
    /\ \E r \in Statuses :
          Goto(t, IF r = SUCCESS THEN "disconnected" ELSE "destroy", handle, connected,
               <<Call("ipc_channel_disconnect", handle, 0, <<>>, r)>>)

\* disconnect(), line 244: self._connected = False
disconnect_clear(t) ==
    /\ tpc[t] = "disconnected"
    /\ UNCHANGED closeCalls
    /\ Goto(t, "destroy", handle, FALSE, <<>>)

\* close(), line 427: _lib.ipc_channel_destroy(self._handle)
close_destroy(t) ==
    /\ tpc[t] = "destroy"
    /\ UNCHANGED closeCalls
    /\ Goto(t, "clear_handle", handle, connected,
            <<Call("ipc_channel_destroy", handle, 0, <<>>, 0)>>)

\* close(), line 428: self._handle = None
close_clear_handle(t) ==
    /\ tpc[t] = "clear_handle"
    /\ UNCHANGED closeCalls
    /\ Goto(t, "clear_connected", NULL, connected, <<>>)

\* close(), line 429: self._connected = False
close_clear_connected(t) ==
    /\ tpc[t] = "clear_connected"
    /\ UNCHANGED closeCalls
    /\ Goto(t, "done", handle, FALSE, <<>>)

NextConc ==
    \/ ConcOpen
    \/ ConcDisconnect
    \/ \E t \in Threads : close_if_handle(t)
    \/ \E t \in Threads : close_if_connected(t)
    \/ \E t \in Threads : disconnect_if(t)
    \/ \E t \in Threads : disconnect_call(t)
    \/ \E t \in Threads : disconnect_clear(t)
    \/ \E t \in Threads : close_destroy(t)
    \/ \E t \in Threads : close_clear_handle(t)
    \/ \E t \in Threads : close_clear_connected(t)

SpecConc == InitConc /\ [][NextConc]_vars

\* ---------------------------------------------------------------- properties
CloseOps == {"close", "__exit__", "__del__"}
TransferOps == {"send", "try_send", "receive", "try_receive"}
OtherOps ==
    {"connect", "disconnect", "send", "try_send", "receive", "try_receive",
     "get_receiver_count", "wait_for_receivers"}
RecvFns == {"ipc_channel_recv", "ipc_channel_try_recv"}

\* the positions of the log where fn was called
CallsOf(fn) == {i \in 1..Len(log) : log[i].fn = fn}
\* __init__ obtained a handle
Constructed == Len(log) >= 1 /\ log[1].fn = "ipc_channel_create" /\ log[1].ok
\* the last operation called the transport, and its first call returned res
FirstRes(res) == result.calls # <<>> /\ result.calls[1].res = res
Raised(code) == result.out.kind = "IPCError" /\ result.out.code = code

\* C1: once close() (or __exit__/__del__) has been called on a constructed
\* channel, ipc_channel_destroy has been called exactly once, with the
\* channel's handle, by the first close; every later close makes no transport
\* call and returns normally.
C1_DestroyExactlyOnce ==
    /\ Cardinality(CallsOf("ipc_channel_destroy")) <= 1
    /\ (closeCalls >= 1 /\ Constructed) =>
          /\ Cardinality(CallsOf("ipc_channel_destroy")) = 1
          /\ \A i \in CallsOf("ipc_channel_destroy") : log[i].h = H1
    /\ (closeCalls = 1 /\ Constructed /\ result.op \in CloseOps) =>
          /\ result.calls # <<>>
          /\ result.calls[Len(result.calls)].fn = "ipc_channel_destroy"
    /\ (closeCalls >= 2 /\ result.op \in CloseOps) =>
          /\ result.calls = <<>>
          /\ result.out = ReturnsNone

C1_Witness ==
    /\ Constructed
    /\ closeCalls >= 2
    /\ result.op = "close"

\* C2 as stated: after close(), every operation other than close fails with
\* InvalidState (IPCError "Channel is closed").
C2_Original ==
    (closeCalls >= 1 /\ result.op \in OtherOps) => result.out = ChannelClosed

\* C2 amended: after close(), connect, send, try_send, receive, try_receive
\* and wait_for_receivers fail with InvalidState; disconnect returns normally
\* and get_receiver_count returns -1; none of them calls the transport.
C2_AfterClose ==
    (closeCalls >= 1 /\ result.op \in OtherOps) =>
        /\ result.calls = <<>>
        /\ result.out = CASE result.op = "disconnect" -> ReturnsNone
                          [] result.op = "get_receiver_count" -> ReturnsInt(-1)
                          [] OTHER -> ChannelClosed

C2_Witness ==
    /\ closeCalls >= 1
    /\ result.op = "connect"
    /\ result.out = ChannelClosed

\* C3: no transport call is made with a handle after ipc_channel_destroy has
\* been called on it.
C3_NoUseAfterDestroy ==
    \A i, j \in 1..Len(log) :
        (i < j /\ log[i].fn = "ipc_channel_destroy") => log[j].h # log[i].h

C3_Witness ==
    /\ CallsOf("ipc_channel_destroy") # {}
    /\ result.op = "wait_for_receivers"
    /\ result.pre.connected = FALSE

\* C4: ipc_buffer_free is called once for each transport receive that
\* returned SUCCESS, right after it and on the buffer it filled, also when the
\* copy raises; a transport receive that returned another status is followed
\* by no free.
C4_FreeOncePerSuccessfulRecv ==
    /\ Cardinality(CallsOf("ipc_buffer_free"))
          = Cardinality({i \in 1..Len(log) : log[i].fn \in RecvFns /\ log[i].ok})
    /\ \A i \in 1..Len(log) :
          /\ (log[i].fn \in RecvFns /\ log[i].ok) =>
                (i < Len(log) /\ log[i + 1].fn = "ipc_buffer_free")
          /\ (log[i].fn \in RecvFns /\ ~log[i].ok) =>
                (i = Len(log) \/ log[i + 1].fn # "ipc_buffer_free")
          /\ log[i].fn = "ipc_buffer_free" =>
                (i > 1 /\ log[i - 1].fn \in RecvFns /\ log[i - 1].ok)
    /\ (result.op \in {"receive", "try_receive"} /\ FirstRes(SUCCESS)) =>
          /\ Len(result.calls) = 2
          /\ result.calls[2].fn = "ipc_buffer_free"
          /\ result.calls[2].data = result.calls[1].data
    /\ (result.op \in {"receive", "try_receive"} /\ result.calls # <<>>
            /\ ~FirstRes(SUCCESS)) =>
          Len(result.calls) = 1

C4_Witness ==
    /\ result.op = "receive"
    /\ result.out = CopyError
    /\ Cardinality(CallsOf("ipc_buffer_free")) = 1
    /\ \E i \in 1..Len(log) : log[i].fn \in RecvFns /\ ~log[i].ok

\* the last operation was a disconnect() whose transport call failed
DisconnectFailed ==
    /\ result.op = "disconnect"
    /\ result.calls # <<>>
    /\ result.calls[1].res # SUCCESS

\* C5 as stated: when the transport's disconnect fails, the error is raised
\* and the channel is disconnected afterwards.
C5_Original ==
    DisconnectFailed => (Raised(result.calls[1].res) /\ ~is_connected)

\* C5 amended: when the transport's disconnect fails, the error is raised and
\* the channel is left as it was, connected with its handle; a disconnect()
\* that makes no transport call happens only on a channel that is closed or
\* not connected, so the following disconnect() calls the transport again.
C5_FailedDisconnectStaysConnected ==
    /\ DisconnectFailed =>
          /\ Raised(result.calls[1].res)
          /\ is_connected
          /\ handle = result.pre.handle
    /\ (result.op = "disconnect" /\ result.calls = <<>>) =>
          (result.pre.handle = NULL \/ ~result.pre.connected)

C5_Witness ==
    /\ DisconnectFailed
    /\ Len(log) >= 3
    /\ log[Len(log) - 1].fn = "ipc_channel_disconnect"
    /\ ~log[Len(log) - 1].ok

\* C6: close() never raises; called on a connected channel whose transport
\* disconnect fails, it discards the error, still calls ipc_channel_destroy,
\* and leaves handle null and connected false.
C6_CloseAlwaysReleases ==
    result.op \in CloseOps =>
        /\ result.out = ReturnsNone
        /\ handle = NULL
        /\ result.pre.handle # NULL =>
              /\ ~connected
              /\ result.calls # <<>>
              /\ result.calls[Len(result.calls)].fn = "ipc_channel_destroy"
              /\ result.calls[Len(result.calls)].h = result.pre.handle
        /\ (result.pre.handle # NULL /\ result.pre.connected) =>
              /\ Len(result.calls) = 2
              /\ result.calls[1].fn = "ipc_channel_disconnect"

C6_Witness ==
    /\ result.op = "close"
    /\ result.pre.connected
    /\ Len(result.calls) = 2
    /\ result.calls[1].fn = "ipc_channel_disconnect"
    /\ result.calls[1].res = ERROR_CONNECTION_FAILED
    /\ result.calls[2].fn = "ipc_channel_destroy"

\* C7: a Timeout status from the transport makes send() and receive() raise
\* an error carrying Timeout; send() returns normally only after SUCCESS;
\* receive() returns only the bytes copied after SUCCESS and otherwise raises.
C7_TimeoutIsHardError ==
    /\ (result.op \in {"send", "receive"} /\ FirstRes(ERROR_TIMEOUT)) =>
          Raised(ERROR_TIMEOUT)
    /\ result.op = "send" =>
          /\ result.out.kind \in {"None", "IPCError", "TypeError"}
          /\ result.out.kind = "None" =>
                (result.calls # <<>> /\ result.calls[1].fn = "ipc_channel_send"
                    /\ FirstRes(SUCCESS))
          /\ (result.calls # <<>> /\ ~FirstRes(SUCCESS)) =>
                Raised(result.calls[1].res)
    /\ result.op = "receive" =>
          /\ result.out.kind \in {"bytes", "IPCError", "MemoryError"}
          /\ result.out.kind = "bytes" =>
                (result.calls # <<>> /\ result.calls[1].fn = "ipc_channel_recv"
                    /\ FirstRes(SUCCESS) /\ result.out.data = result.calls[1].data)
          /\ (result.calls # <<>> /\ ~FirstRes(SUCCESS)) =>
                Raised(result.calls[1].res)

C7_Witness ==
    /\ result.op = "send"
    /\ FirstRes(ERROR_TIMEOUT)
    /\ Raised(ERROR_TIMEOUT)

\* C8: try_send() on a connected channel returns True iff the transport's
\* try-send returned SUCCESS, False iff it returned Timeout, and raises the
\* status otherwise; its only transport call is ipc_channel_try_send.
C8_TrySendSoftTimeout ==
    result.op = "try_send" =>
        /\ Len(result.calls) <= 1
        /\ \A i \in 1..Len(result.calls) : result.calls[i].fn = "ipc_channel_try_send"
        /\ (result.pre.handle # NULL /\ result.pre.connected) =>
              (result.calls # <<>> \/ result.out = TypeError)
        /\ result.out = ReturnsBool(TRUE) <=> FirstRes(SUCCESS)
        /\ result.out = ReturnsBool(FALSE) <=> FirstRes(ERROR_TIMEOUT)
        /\ result.out.kind \in {"bool", "IPCError", "TypeError"}
        /\ (result.calls # <<>> /\ result.calls[1].res \notin {SUCCESS, ERROR_TIMEOUT}) =>
              Raised(result.calls[1].res)

C8_Witness ==
    /\ result.op = "try_send"
    /\ FirstRes(ERROR_TIMEOUT)
    /\ result.out = ReturnsBool(FALSE)

\* C9: try_receive() on a connected channel returns None without raising when
\* the transport's try-receive returns Timeout, returns the copied payload
\* when it returns SUCCESS (and the copy itself does not fail), and raises the
\* status otherwise.
C9_TryReceiveSoftTimeout ==
    result.op = "try_receive" =>
        /\ (result.pre.handle # NULL /\ result.pre.connected) =>
              (result.calls # <<>> /\ result.calls[1].fn = "ipc_channel_try_recv")
        /\ FirstRes(ERROR_TIMEOUT) => result.out = ReturnsNone
        /\ result.out = ReturnsNone => FirstRes(ERROR_TIMEOUT)
        /\ FirstRes(SUCCESS) =>
              (result.out = ReturnsBytes(result.calls[1].data) \/ result.out = CopyError)
        /\ result.out.kind = "bytes" => FirstRes(SUCCESS)
        /\ (result.calls # <<>> /\ result.calls[1].res \notin {SUCCESS, ERROR_TIMEOUT}) =>
              Raised(result.calls[1].res)

C9_Witness ==
    /\ result.op = "try_receive"
    /\ FirstRes(ERROR_TIMEOUT)
    /\ result.out = ReturnsNone

\* C10: send, try_send, receive and try_receive on a null handle fail with
\* InvalidState, otherwise on a channel that is not connected with
\* ConnectionFailed; in both cases without any transport call or buffer free.
C10_SharedPreconditions ==
    result.op \in TransferOps =>
        /\ result.pre.handle = NULL =>
              (result.out = ChannelClosed /\ result.calls = <<>>)
        /\ (result.pre.handle # NULL /\ ~result.pre.connected) =>
              (result.out = NotConnected /\ result.calls = <<>>)
        /\ (handle = result.pre.handle /\ connected = result.pre.connected)

C10_Witness ==
    /\ result.op = "receive"
    /\ result.pre.handle = NULL
    /\ ~result.pre.connected
    /\ result.out = ChannelClosed

\* C11: wait_for_receivers() needs only a handle: on a null handle it fails
\* with InvalidState without a transport call; otherwise, connected or not, it
\* calls ipc_channel_wait_for_recv once and returns True for 1, False for 0,
\* and raises ConnectionFailed for any other result.
C11_WaitNeedsOnlyHandle ==
    result.op = "wait_for_receivers" =>
        /\ result.pre.handle = NULL =>
              (result.out = ChannelClosed /\ result.calls = <<>>)
        /\ result.pre.handle # NULL =>
              /\ Len(result.calls) = 1
              /\ result.calls[1].fn = "ipc_channel_wait_for_recv"
              /\ result.calls[1].h = result.pre.handle
              /\ result.calls[1].res = 1 => result.out = ReturnsBool(TRUE)
              /\ result.calls[1].res = 0 => result.out = ReturnsBool(FALSE)
              /\ result.calls[1].res \notin {0, 1} => Raised(ERROR_CONNECTION_FAILED)

C11_Witness ==
    /\ result.op = "wait_for_receivers"
    /\ result.pre.handle # NULL
    /\ ~result.pre.connected
    /\ result.calls # <<>>
    /\ result.out = ReturnsBool(TRUE)

\* C12 as stated: in every state of a Channel object, the one left by a
\* failed construction included, a null handle implies connected = false.
C12_Original ==
    (phase # "uninit" /\ handle = NULL) => ~connected

\* C13: when ipc_channel_create returns null, __init__ raises
\* ConnectionFailed, the caller gets no channel, and no further transport call
\* is made for that object, also not by close() run from __del__.
C13_FailedOpenMakesNoCalls ==
    (Len(log) >= 1 /\ ~log[1].ok) =>
        /\ Len(log) = 1
        /\ phase \in {"failed", "dead"}
        /\ handle = NULL
        /\ result.op \in {"__init__", "__del__"}
        /\ result.op = "__init__" =>
              (Raised(ERROR_CONNECTION_FAILED) /\ phase = "failed")
        /\ result.op = "__del__" =>
              (result.calls = <<>> /\ result.out = ReturnsNone)

C13_Witness ==
    /\ Len(log) = 1
    /\ ~log[1].ok
    /\ phase = "dead"
    /\ result.op = "__del__"

\* C14: connect() on a connected channel (as right after construction) makes
\* no transport call and changes nothing; on a disconnected channel with a
\* handle it calls ipc_channel_connect once, with the mode given or else the
\* construction-time mode, and on success the channel is connected.
C14_ConnectIdempotent ==
    result.op = "connect" =>
        /\ (result.pre.handle # NULL /\ result.pre.connected) =>
              /\ result.calls = <<>>
              /\ result.out = ReturnsNone
              /\ handle = result.pre.handle
              /\ connected
        /\ (result.pre.handle # NULL /\ ~result.pre.connected) =>
              /\ Len(result.calls) = 1
              /\ result.calls[1].fn = "ipc_channel_connect"
              /\ result.calls[1].h = result.pre.handle
              /\ result.calls[1].arg =
                    (IF result.args[1] # NoMode THEN result.args[1] ELSE mode)
              /\ handle = result.pre.handle
              /\ result.calls[1].res = SUCCESS =>
                    (connected /\ result.out = ReturnsNone)

C14_Witness ==
    /\ result.op = "connect"
    /\ ~result.pre.connected
    /\ result.args = <<RECEIVER>>
    /\ mode = SENDER
    /\ result.calls # <<>>
    /\ result.calls[1].arg = RECEIVER
    /\ connected

\* the three lifecycle states of a constructed channel
State ==
    IF handle = NULL THEN "Closed"
    ELSE IF connected THEN "Connected" ELSE "Disconnected"

\* C15: Closed is terminal: once the handle of a constructed channel is null,
\* no operation makes it non-null or makes is_connected true again.
C15_ClosedIsTerminal ==
    [][(phase # "uninit" /\ handle = NULL) =>
          (handle' = NULL /\ ~is_connected' /\ State' = "Closed")]_vars

C15_Witness ==
    /\ closeCalls >= 1
    /\ handle = NULL
    /\ State = "Closed"
    /\ result.op = "connect"

\* the last operation was a connect() whose transport call failed
ConnectFailed ==
    /\ result.op = "connect"
    /\ result.calls # <<>>
    /\ result.calls[1].res # SUCCESS

\* C17: when the transport's connect fails, connect() raises that status
\* after a single transport call, the channel stays disconnected with its
\* handle; a connect() that makes no transport call happens only on a channel
\* that is closed or connected, so a later connect() calls the transport again.
C17_FailedConnectNotLatched ==
    /\ ConnectFailed =>
          /\ Len(result.calls) = 1
          /\ Raised(result.calls[1].res)
          /\ ~connected
          /\ handle = result.pre.handle
          /\ handle # NULL
    /\ (result.op = "connect" /\ result.calls = <<>>) =>
          (result.pre.handle = NULL \/ result.pre.connected)

C17_Witness ==
    /\ ConnectFailed
    /\ Len(log) >= 3
    /\ log[Len(log) - 1].fn = "ipc_channel_connect"
    /\ ~log[Len(log) - 1].ok

FrameOps ==
    {"send", "try_send", "receive", "try_receive", "get_receiver_count",
     "wait_for_receivers"}

\* C19: a step of send, try_send, receive, try_receive, get_receiver_count or
\* wait_for_receivers leaves handle, connected, name, channel_type and mode as
\* they were; handle or connected change only in a step of __init__, connect,
\* disconnect or close (__exit__, __del__).
C19_TransferLeavesLifecycle ==
    [][/\ result'.op \in FrameOps =>
             UNCHANGED <<handle, connected, name, channel_type, mode>>
       /\ (handle' # handle \/ connected' # connected) =>
             result'.op \in {"__init__", "connect", "disconnect"} \cup CloseOps]_vars

C19_Witness ==
    /\ result.op = "send"
    /\ result.calls # <<>>
    /\ result.calls[1].res = ERROR_TIMEOUT
    /\ connected

\* the functions called so far, in order, ipc_buffer_free left out
HandleCalls ==
    LET kept == SelectSeq(log, LAMBDA c : c.fn # "ipc_buffer_free")
    IN  [i \in 1..Len(kept) |-> kept[i].fn]

\* the transport call of the helper's with body
TransferFn ==
    IF helper.fn = "send_message" THEN "ipc_channel_send" ELSE "ipc_channel_recv"

\* C18: in send_message and receive_message, after a successful create the
\* transport is called in the order create, one send (or recv), disconnect,
\* destroy, without any connect; the helper ends, normally or with the error
\* of the send or receive, only after disconnect and destroy have each been
\* called once.
C18_HelpersReleaseHandle ==
    Constructed =>
        /\ helper.pc = "connect" => HandleCalls = <<"ipc_channel_create">>
        /\ helper.pc = "transfer" => HandleCalls = <<"ipc_channel_create">>
        /\ helper.pc = "exit" =>
              /\ HandleCalls = <<"ipc_channel_create", TransferFn>>
              /\ helper.out = ReturnsNone
        /\ helper.pc = "done" =>
              /\ HandleCalls = <<"ipc_channel_create", TransferFn,
                                 "ipc_channel_disconnect", "ipc_channel_destroy">>
              /\ \A i \in 2..Len(log) : log[i].fn # "ipc_buffer_free" => log[i].h = H1
              /\ handle = NULL
              /\ helper.out = helper.body
              /\ ~log[2].ok <=> helper.out.kind = "IPCError"

C18_Witness ==
    /\ helper.pc = "done"
    /\ helper.fn = "receive_message"
    /\ Constructed
    /\ helper.out.kind = "IPCError"
    /\ helper.out.code = ERROR_TIMEOUT
    /\ Len(log) = 4

\* C16: over a transport that delivers what it was given, the bytes
\* receive() returns on the receiver channel are the bytes that were passed
\* to the send() of that message on the sender channel: same length, same
\* content, the empty sequence and NUL bytes included.
C16_RoundTripFidelity ==
    (rt.self = "receiver" /\ result.op = "receive" /\ result.out.kind = "bytes") =>
        /\ result.out.data = rt.lastSent
        /\ Len(result.out.data) = Len(rt.lastSent)

C16_Witness ==
    /\ rt.self = "receiver"
    /\ result.op = "receive"
    /\ result.out.kind = "bytes"
    /\ rt.nrecv = 2
    /\ rt.lastSent = <<0, 104>>
    /\ result.out.data = <<0, 104>>

\* C20 (as stated): when two threads run close() on the same channel with
\* their steps interleaved, ipc_channel_destroy is called exactly once for
\* the handle, and no transport call is made with the handle after it.
C20_Original ==
    LET destroys == {i \in CallsOf("ipc_channel_destroy") : log[i].h = H1}
    IN  /\ Cardinality(destroys) <= 1
        /\ (Constructed /\ \A t \in Threads : tpc[t] = "done") =>
               Cardinality(destroys) = 1
        /\ \A i \in destroys : \A j \in 1..Len(log) : i < j => log[j].h # H1

====
